---- MODULE Spec2Model ----
(***************************************************************************)
(* Model of app.py: a Flask front end to a MikroTik router.  Four routes    *)
(* (login, logout, interface_manager, update_ip) work on a per-browser      *)
(* session dictionary and on the router's ip/address table, reached through *)
(* a RouterOsApiPool that every request opens for itself.                   *)
(*                                                                         *)
(* A browser session issues one request at a time.  login, logout and       *)
(* interface_manager are single actions; update_ip is split at its device   *)
(* calls (connect, get, remove, add) so that two sessions' updates can      *)
(* interleave on the shared router.  Every device call may fail.            *)
(***************************************************************************)
EXTENDS Integers, Sequences, FiniteSets, TLC

\* ---------------------------------------------------------------- bounds
MaxBindings == 2      \* address rows on the router before the first request
MaxId == 3            \* largest row id the router hands out in a run

\* ------------------------------------------------------- program constants
MinPort == 1
MaxPort == 65535

\* ----------------------------------------------------------------- strings
\* A form field: its text, and whether it carries leading/trailing blanks.
Text(pad, txt) == [pad |-> pad, txt |-> txt]
NoText == Text(FALSE, "-")

\* A port field: blanks, then an integer literal (kind "int", value val),
\* a word (kind "word") or nothing (kind "empty").
PortText(pad, kind, val) == [pad |-> pad, kind |-> kind, val |-> val]
NoPort == PortText(FALSE, "empty", 0)

\* An address field: blanks, an address of family fam whose last group is
\* `last`, and a prefix length plen (-1: the string has no "/plen" part).
Addr(pad, fam, last, plen) == [pad |-> pad, fam |-> fam, last |-> last, plen |-> plen]
NoAddr == Addr(FALSE, "none", 0, -1)

\* str.strip(): the blanks around a field go, the text stays.
stripMutant(s) == s
strip(s) == [s EXCEPT !.pad = FALSE]

\* int(port): Python's int() skips surrounding blanks itself and raises
\* ValueError on anything that is not an integer literal.
intRaises(p) == p.kind # "int"
int(p) == p.val

\* 1 <= port <= 65535
portInRangeMutant(n) == 0 <= n /\ n <= MaxPort + 1
portInRange(n) == MinPort <= n /\ n <= MaxPort

\* ipaddress.ip_interface(s) returns (TRUE) or raises ValueError (FALSE).
\* Blanks are not skipped; the prefix is optional ("a.b.c.d" is read as /32,
\* "x::y" as /128); a group or a prefix length outside the family's range
\* is refused.
ip_interface(a) ==
    /\ ~a.pad
    /\ \/ a.fam = "v4" /\ a.last \in 0..255 /\ a.plen \in -1..32
       \/ a.fam = "v6" /\ a.last \in 0..65535 /\ a.plen \in -1..128

\* ------------------------------------------------------------------ inputs
Threads == {1, 2}                       \* browser sessions
DeviceIfaces == <<"ether1", "ether2">>  \* the router's interface rows
Ifaces == {DeviceIfaces[i] : i \in DOMAIN DeviceIfaces}
OldAddr == Addr(FALSE, "v4", 1, 24)

HostInputs == {Text(p, "10.0.0.1") : p \in BOOLEAN}
UserInputs == {Text(p, "admin") : p \in BOOLEAN}
PassInputs == {Text(p, "x") : p \in BOOLEAN}
PortInputs ==
    {PortText(FALSE, "int", v) : v \in {-1, 0, MinPort, MaxPort, MaxPort + 1}}
        \cup {PortText(TRUE, "int", MinPort), PortText(FALSE, "word", 0),
              PortText(FALSE, "empty", 0)}
AddrInputs ==
    { Addr(FALSE, "v4", 5, 24),      \* 192.168.88.5/24
      Addr(TRUE,  "v4", 5, 24),      \* " 192.168.88.5/24 "
      Addr(FALSE, "v4", 5, -1),      \* 192.168.88.5
      Addr(FALSE, "v4", 256, 24),    \* 192.168.88.256/24
      Addr(FALSE, "v4", 5, 64),      \* 192.168.88.5/64
      Addr(FALSE, "v6", 1, 64),      \* fe80::1/64
      Addr(FALSE, "none", 0, -1) }   \* not an address at all

Form(h, p, u, w, i, a) ==
    [host |-> h, port |-> p, username |-> u, password |-> w, iface |-> i, new_ip |-> a]
NoForm == Form(NoText, NoPort, NoText, NoText, "-", NoAddr)
\* Every port with unpadded fields, and every padding of the fields with one port.
LoginForms ==
    {Form(Text(FALSE, "10.0.0.1"), p, Text(FALSE, "admin"), Text(FALSE, "x"), "-", NoAddr) :
        p \in PortInputs}
    \cup {Form(h, PortText(FALSE, "int", MaxPort), u, w, "-", NoAddr) :
        h \in HostInputs, u \in UserInputs, w \in PassInputs}
UpdateForms == {Form(NoText, NoPort, NoText, NoText, i, a) : i \in Ifaces, a \in AddrInputs}

\* ------------------------------------------------------------------- state
VARIABLES
    bindings,   \* the router's ip/address rows, in the order it returns them
    nextId,     \* the id the router gives the next row it creates
    lastAdd,    \* the session whose add the router executed last (0: none)
    session,    \* session[t]: the Flask session dictionary of browser t
    req         \* req[t]: the request of browser t, in flight or answered
vars == <<bindings, nextId, lastAdd, session, req>>

CredKeys == {"host", "port", "username", "password"}
EmptySession == [k \in {} |-> 0]
Creds(h, p, u, w) ==
    [k \in CredKeys |-> CASE k = "host" -> h [] k = "port" -> p
                          [] k = "username" -> u [] OTHER -> w]

\* all(key in session for key in ['host', 'port', 'username', 'password'])
HasCreds(s) == \A k \in CredKeys : k \in DOMAIN s

\* get_api_pool(): the pool is built from the four session entries; a missing
\* entry raises KeyError.
get_api_poolRaises(s) == ~(CredKeys \subseteq DOMAIN s)
get_api_pool(s) == [k \in CredKeys |-> s[k]]

\* What is recorded of a request: the route (op), the submitted form, the
\* session as the request found it, the position of update_ip (pc), the ids
\* update_ip still has to remove (rows), the response (out), the messages
\* flashed, the connections attempted and device calls issued, whether the
\* pool is still connected (open), the credentials the pool was built from
\* (conn), the step that raised (failed) and the rendered table (page).
NoPage == [i \in Ifaces |-> <<>>]
NewReq(op, form, before) ==
    [op |-> op, form |-> form, before |-> before, pc |-> "done", rows |-> <<>>,
     out |-> "none", flashed |-> <<>>, attempts |-> 0, calls |-> 0, open |-> FALSE,
     conn |-> EmptySession, failed |-> "none", page |-> NoPage]
Idle == [NewReq("none", NoForm, EmptySession) EXCEPT !.pc = "idle"]

InFlight(t) == req[t].pc \in {"list", "remove", "add"}

\* ------------------------------------------------------------- the router
Row(id, iface, addr) == [id |-> id, interface |-> iface, address |-> addr]

InitBindings ==
    UNION { { [i \in 1..n |-> Row(i, f[i], OldAddr)] : f \in [1..n -> Ifaces] } :
            n \in 0..MaxBindings }

HasRow(bs, id) == \E i \in DOMAIN bs : bs[i].id = id

\* ip_res.remove(id=...): the row with that id goes, the others keep their order.
RemoveRowMutant(bs, id) == bs
RemoveRow(bs, id) == SelectSeq(bs, LAMBDA r : r.id # id)

\* ip_res.add(address=..., interface=...): a new row at the end.
AddRow(bs, id, iface, addr) == Append(bs, Row(id, iface, addr))

\* for row in ip_res.get(): if row["interface"] == iface: ... row[".id"]
RECURSIVE IdsOf(_, _), IdsOfMutant(_, _)
IdsOfAnyMutant(bs, iface) == [k \in DOMAIN bs |-> bs[k].id]
IdsOfMutant(bs, iface) ==
    IF bs = <<>> THEN <<>>
    ELSE IF Head(bs).interface = iface THEN <<Head(bs).id>>
    ELSE IdsOfMutant(Tail(bs), iface)
IdsOf(bs, iface) ==
    IF bs = <<>> THEN <<>>
    ELSE IF Head(bs).interface = iface THEN <<Head(bs).id>> \o IdsOf(Tail(bs), iface)
    ELSE IdsOf(Tail(bs), iface)

\* ip_map.setdefault(row["interface"], []).append(row["address"])
RECURSIVE AddrsOf(_, _)
AddrsOfMutant(bs, iface) == [k \in DOMAIN bs |-> bs[k].address]
AddrsOf(bs, iface) ==
    IF bs = <<>> THEN <<>>
    ELSE IF Head(bs).interface = iface THEN <<Head(bs).address>> \o AddrsOf(Tail(bs), iface)
    ELSE AddrsOf(Tail(bs), iface)

\* ------------------------------------------------------------------- Init
Init ==
    /\ bindings \in InitBindings
    /\ nextId = Len(bindings) + 1
    /\ lastAdd = 0
    /\ session = [t \in Threads |-> EmptySession]
    /\ req = [t \in Threads |-> Idle]

Device == <<bindings, nextId, lastAdd>>

\* ------------------------------------------------------------------ login
\* POST /: strip the fields, check the port, probe the router, store the
\* credentials, disconnect.  fault: the call of the probe that raises, if any.
LoginFaults == {"none", "connect", "read", "disconnect"}

loginPost(t, f, fault) ==
    LET host == strip(f.host)
        port == strip(f.port)
        username == strip(f.username)
        password == strip(f.password)
        r0 == NewReq("submit_login", f, session[t])
        bad == [r0 EXCEPT !.out = "login_page", !.flashed = <<"invalid_port">>]
        r1 == [r0 EXCEPT !.attempts = 1,
                         !.conn = Creds(host, int(port), username, password)]
        failure(open, calls) ==
            [r1 EXCEPT !.out = "login_page", !.flashed = <<"connection_failed">>,
                       !.failed = fault, !.open = open, !.calls = calls]
    IN  /\ ~InFlight(t)
        /\ UNCHANGED Device
        /\ IF intRaises(port) \/ ~portInRange(int(port))
           THEN /\ req' = [req EXCEPT ![t] = bad]
                /\ UNCHANGED session
           ELSE IF fault = "connect"
           THEN /\ req' = [req EXCEPT ![t] = failure(FALSE, 0)]
                /\ UNCHANGED session
           ELSE IF fault = "read"
           THEN /\ req' = [req EXCEPT ![t] = failure(TRUE, 1)]
                /\ UNCHANGED session
           ELSE /\ session' = [session EXCEPT ![t] =
                        Creds(host, int(port), username, password)]
                /\ req' = [req EXCEPT ![t] =
                        IF fault = "disconnect" THEN failure(TRUE, 1)
                        ELSE [r1 EXCEPT !.out = "redirect_interfaces", !.calls = 1]]

\* GET /: session.clear() and the login page.
loginGet(t) ==
    /\ ~InFlight(t)
    /\ session' = [session EXCEPT ![t] = EmptySession]
    /\ req' = [req EXCEPT ![t] =
            [NewReq("show_login", NoForm, session[t]) EXCEPT !.out = "login_page"]]
    /\ UNCHANGED Device

login(t) ==
    \/ \E f \in LoginForms, fault \in LoginFaults : loginPost(t, f, fault)
    \/ loginGet(t)

\* GET /logout: session.clear() and a redirect to the login page.
logoutMutant(t) ==
    /\ ~InFlight(t)
    /\ req' = [req EXCEPT ![t] =
            [NewReq("logout", NoForm, session[t]) EXCEPT !.out = "redirect_login"]]
    /\ UNCHANGED <<Device, session>>
logout(t) ==
    /\ ~InFlight(t)
    /\ session' = [session EXCEPT ![t] = EmptySession]
    /\ req' = [req EXCEPT ![t] =
            [NewReq("logout", NoForm, session[t]) EXCEPT !.out = "redirect_login"]]
    /\ UNCHANGED Device

\* ------------------------------------------------------ interface_manager
\* GET /interfaces.  fault: the call inside the try block that raises, if
\* any; dok: whether the pool.disconnect() of the finally block succeeds.
ListFaults == {"none", "connect", "ifaces", "addresses"}

interface_manager(t, fault, dok) ==
    LET r0 == NewReq("list", NoForm, session[t])
        r1 == [r0 EXCEPT !.attempts = 1, !.conn = get_api_pool(session[t])]
        caught(r) == [r EXCEPT !.out = "redirect_login", !.flashed = <<"router_error">>]
        \* finally: if 'pool' in locals(): pool.disconnect()
        finally(r) == IF dok THEN [r EXCEPT !.open = FALSE]
                      ELSE [r EXCEPT !.open = TRUE, !.out = "error500",
                                     !.failed = IF r.failed = "none" THEN "disconnect"
                                                ELSE r.failed]
        calls == CASE fault = "ifaces" -> 1 [] OTHER -> 2
        page == [i \in Ifaces |-> AddrsOf(bindings, i)]
    IN  /\ ~InFlight(t)
        /\ UNCHANGED <<Device, session>>
        /\ req' = [req EXCEPT ![t] =
              IF ~HasCreds(session[t]) THEN [r0 EXCEPT !.out = "redirect_login"]
              ELSE IF get_api_poolRaises(session[t]) THEN caught(r0)
              ELSE IF fault = "connect" THEN caught([r1 EXCEPT !.failed = "connect"])
              ELSE IF fault # "none"
              THEN finally(caught([r1 EXCEPT !.failed = "read", !.calls = calls]))
              ELSE finally([r1 EXCEPT !.out = "interfaces_page", !.calls = calls,
                                      !.page = page])]

\* -------------------------------------------------------------- update_ip
\* flash(... applied successfully!) at the end of the try block,
\* flash(Error applying changes ...) in the except block.
applyFlashMutant(raised) == "applied"
applyFlash(raised) == IF raised THEN "apply_error" ELSE "applied"

\* except Exception: flash; finally: pool.disconnect(); return redirect(...)
updFinish(r, raised, why, dok) ==
    LET r1 == [r EXCEPT !.pc = "done", !.rows = <<>>,
                        !.flashed = <<applyFlash(raised)>>,
                        !.failed = IF raised THEN why ELSE "none"]
    IN  IF dok THEN [r1 EXCEPT !.open = FALSE, !.out = "redirect_interfaces"]
        ELSE [r1 EXCEPT !.open = TRUE, !.out = "error500",
                        !.failed = IF raised THEN why ELSE "disconnect"]

\* POST /update up to and including pool.get_api(): the session check, the
\* validation of new_ip and the connection, which is made outside any try.
update_ipStart(t, f, cok) ==
    LET new_ip == strip(f.new_ip)
        r0 == NewReq("update", f, session[t])
        r1 == [r0 EXCEPT !.attempts = 1, !.conn = get_api_pool(session[t])]
    IN  /\ ~InFlight(t)
        /\ nextId + Cardinality({u \in Threads : InFlight(u)}) <= MaxId
        /\ UNCHANGED <<Device, session>>
        /\ req' = [req EXCEPT ![t] =
              IF ~HasCreds(session[t]) THEN [r0 EXCEPT !.out = "redirect_login"]
              ELSE IF ~ip_interface(new_ip)
              THEN [r0 EXCEPT !.out = "redirect_interfaces", !.flashed = <<"invalid_ip">>]
              ELSE IF get_api_poolRaises(session[t])
              THEN [r0 EXCEPT !.out = "error500", !.failed = "session"]
              ELSE IF ~cok THEN [r1 EXCEPT !.out = "error500", !.failed = "connect"]
              ELSE [r1 EXCEPT !.pc = "list", !.open = TRUE]]

\* ip_res.get(): the rows of the interface, as the router holds them now.
update_ipList(t, ok, dok) ==
    LET r == [req[t] EXCEPT !.calls = @ + 1]
        rows == IdsOf(bindings, r.form.iface)
    IN  /\ req[t].pc = "list"
        /\ UNCHANGED <<Device, session>>
        /\ req' = [req EXCEPT ![t] =
              IF ~ok THEN updFinish(r, TRUE, "read", dok)
              ELSE [r EXCEPT !.rows = rows,
                             !.pc = IF rows = <<>> THEN "add" ELSE "remove"]]

\* ip_res.remove(id=row[".id"]) for the next listed row.  The router refuses
\* an id it no longer holds.
update_ipRemove(t, ok, dok) ==
    LET r == [req[t] EXCEPT !.calls = @ + 1]
        id == Head(r.rows)
        rest == Tail(r.rows)
    IN  /\ req[t].pc = "remove"
        /\ UNCHANGED <<nextId, lastAdd, session>>
        /\ IF ok /\ HasRow(bindings, id)
           THEN /\ bindings' = RemoveRow(bindings, id)
                /\ req' = [req EXCEPT ![t] =
                      [r EXCEPT !.rows = rest,
                                !.pc = IF rest = <<>> THEN "add" ELSE "remove"]]
           ELSE /\ UNCHANGED bindings
                /\ req' = [req EXCEPT ![t] = updFinish(r, TRUE, "delete", dok)]

\* ip_res.add(address=new_ip, interface=iface), then the end of the request.
update_ipAdd(t, ok, dok) ==
    LET r == [req[t] EXCEPT !.calls = @ + 1]
        new_ip == strip(r.form.new_ip)
    IN  /\ req[t].pc = "add"
        /\ UNCHANGED session
        /\ IF ok
           THEN /\ bindings' = AddRow(bindings, nextId, r.form.iface, new_ip)
                /\ nextId' = nextId + 1
                /\ lastAdd' = t
                /\ req' = [req EXCEPT ![t] = updFinish(r, FALSE, "none", dok)]
           ELSE /\ UNCHANGED Device
                /\ req' = [req EXCEPT ![t] = updFinish(r, TRUE, "create", dok)]

update_ip(t, forms) ==
    \/ \E f \in forms, cok \in BOOLEAN : update_ipStart(t, f, cok)
    \/ \E ok, dok \in BOOLEAN : update_ipList(t, ok, dok)
    \/ \E ok, dok \in BOOLEAN : update_ipRemove(t, ok, dok)
    \/ \E ok, dok \in BOOLEAN : update_ipAdd(t, ok, dok)

\* --------------------------------------------------------- specifications
\* One browser, one request at a time.
Browser == 1
Next ==
    \/ login(Browser)
    \/ logout(Browser)
    \/ \E fault \in ListFaults, dok \in BOOLEAN : interface_manager(Browser, fault, dok)
    \/ update_ip(Browser, UpdateForms)
Spec == Init /\ [][Next]_vars

\* Two logged-in browsers, each submitting address changes to the same router.
LoggedIn == Creds(Text(FALSE, "10.0.0.1"), MaxPort, Text(FALSE, "admin"), Text(FALSE, "x"))
RaceInit ==
    /\ bindings \in InitBindings
    /\ nextId = Len(bindings) + 1
    /\ lastAdd = 0
    /\ session = [t \in Threads |-> LoggedIn]
    /\ req = [t \in Threads |-> Idle]
\* The forms of the race: well-formed addresses, as typed.
RaceForms == {f \in UpdateForms : ~f.new_ip.pad /\ ip_interface(f.new_ip) /\ f.new_ip.plen >= 0}
RaceNext == \E t \in Threads : update_ip(t, RaceForms)
SpecRace == RaceInit /\ [][RaceNext]_vars

\* ------------------------------------------------------------------ claims
R == req[Browser]
Done(r) == r.pc = "done"

\* CIDR notation: an address of one family, every group in range, followed by
\* a prefix length of that family; no blanks.
WellFormedCIDR(a) ==
    /\ ~a.pad
    /\ \/ a.fam = "v4" /\ a.last \in 0..255 /\ a.plen \in 0..32
       \/ a.fam = "v6" /\ a.last \in 0..65535 /\ a.plen \in 0..128
\* Malformed: no prefix length, a group out of range, a prefix length of the
\* other family, or no address at all.
Malformed(a) ==
    \/ a.fam \notin {"v4", "v6"}
    \/ a.plen = -1
    \/ a.fam = "v4" /\ (a.last \notin 0..255 \/ a.plen \notin 0..32)
    \/ a.fam = "v6" /\ (a.last \notin 0..65535 \/ a.plen \notin 0..128)

\* C1: an authenticated update_ip for interface I with a valid CIDR N that
\* completes with no device error (and, here, with no other request running)
\* leaves the router with exactly one row for I, whose address is N.
C1_Applies ==
    /\ R.op = "update" /\ Done(R) /\ HasCreds(R.before)
    /\ WellFormedCIDR(R.form.new_ip)
    /\ R.failed = "none" /\ R.out = "redirect_interfaces"
C1_ReplaceLeavesOneBinding ==
    C1_Applies => AddrsOf(bindings, R.form.iface) = <<R.form.new_ip>>
\* ... reached from a router that held two rows for I (list, two removes, add).
C1_Witness == C1_Applies /\ R.calls = 4 /\ R.flashed = <<"applied">>

\* C2: update_ip accepts every valid CIDR string (it goes on to connect) and
\* rejects every malformed one with the validation message, without a
\* connection attempt or a device call.
C2_MalformedRejected ==
    (R.op = "update" /\ HasCreds(R.before)) =>
        /\ WellFormedCIDR(R.form.new_ip) => R.attempts = 1
        /\ Malformed(R.form.new_ip) =>
              /\ Done(R) /\ R.out = "redirect_interfaces"
              /\ R.flashed = <<"invalid_ip">>
              /\ R.attempts = 0 /\ R.calls = 0

\* C3: when a request has been answered, the pool it opened is disconnected
\* (the case of pool.disconnect() itself raising set aside).
C3_NoOpenConnectionAtResponse ==
    (Done(R) /\ R.failed # "disconnect") => ~R.open

\* C4: a submit-login that answers with the failure page leaves the session
\* as it found it.
C4_FailedLoginKeepsSession ==
    (R.op = "submit_login" /\ R.out = "login_page") => session[Browser] = R.before

\* C5 as stated: after a successful submit-login the session holds exactly
\* the submitted field values (the port as the number it spells).
C5_LoginOk == R.op = "submit_login" /\ R.out = "redirect_interfaces"
C5_StoredAsSubmitted ==
    C5_LoginOk =>
        session[Browser] =
            Creds(R.form.host, R.form.port.val, R.form.username, R.form.password)
\* C5 as amended: after a successful submit-login the session holds the
\* submitted host, username and password without their surrounding blanks and
\* the port as an integer, and every connection interface_manager or update_ip
\* opens is built from exactly the credentials the session holds.
C5_StoredStripped ==
    /\ C5_LoginOk =>
          /\ session[Browser] =
                Creds(Text(FALSE, R.form.host.txt), R.form.port.val,
                      Text(FALSE, R.form.username.txt), Text(FALSE, R.form.password.txt))
          /\ R.conn = session[Browser]
    /\ (R.op \in {"list", "update"} /\ R.attempts = 1) =>
          /\ HasCreds(session[Browser])
          /\ R.conn = session[Browser]
\* ... a login whose password came with blanks around it.
C5_Witness ==
    /\ C5_LoginOk /\ R.form.password.pad /\ R.form.host.pad
    /\ ~session[Browser]["password"].pad

\* C6: a session without the four credentials gets a redirect to the login
\* page from interface_manager and update_ip, with no connection and no change
\* to the router; and the session stays without credentials until a
\* submit-login succeeds.
C6_UnauthenticatedRedirected ==
    [][ /\ (req'[Browser] # req[Browser] /\ req'[Browser].op \in {"list", "update"}
                /\ ~HasCreds(session[Browser])) =>
            /\ req'[Browser].out = "redirect_login" /\ Done(req'[Browser])
            /\ req'[Browser].attempts = 0 /\ req'[Browser].calls = 0
            /\ bindings' = bindings
        /\ (~HasCreds(session[Browser]) /\ HasCreds(session'[Browser])) =>
            /\ req'[Browser].op = "submit_login"
            /\ req'[Browser].out = "redirect_interfaces" ]_vars

\* C7: submit-login accepts a port exactly when it is an integer in 1..65535;
\* a refused port gives the port message, no connection and no change to the
\* session.
C7_PortOk(p) == p.kind = "int" /\ p.val >= 1 /\ p.val <= 65535
C7_PortValidation ==
    R.op = "submit_login" =>
        /\ C7_PortOk(R.form.port) => R.attempts = 1
        /\ ~C7_PortOk(R.form.port) =>
              /\ R.out = "login_page" /\ R.flashed = <<"invalid_port">>
              /\ R.attempts = 0 /\ R.calls = 0
              /\ session[Browser] = R.before
\* ... port 65536 refused by a session that is logged in.
C7_Witness ==
    /\ R.op = "submit_login" /\ R.form.port.kind = "int" /\ R.form.port.val = 65536
    /\ R.out = "login_page" /\ HasCreds(R.before)

\* C8: a failed connection or read in interface_manager or update_ip clears
\* the stored credentials and sends the user to the login page.
C8_FailureForcesRelogin ==
    (Done(R) /\ R.op \in {"list", "update"} /\ HasCreds(R.before)
        /\ R.failed \in {"connect", "read"}) =>
            /\ ~HasCreds(session[Browser])
            /\ R.out = "redirect_login"

\* C9: an update_ip whose remove or add raised flashes the error message and
\* never the success message; when the add raised (every remove having
\* succeeded) the router is left with no row for the interface.
C9_Failed == R.op = "update" /\ Done(R) /\ R.failed \in {"delete", "create"}
C9_MutationFailureReported ==
    C9_Failed =>
        /\ R.flashed = <<"apply_error">>
        /\ R.failed = "create" => AddrsOf(bindings, R.form.iface) = <<>>
\* ... the add raised after a remove had gone through.
C9_Witness == C9_Failed /\ R.failed = "create" /\ R.calls >= 3

\* C10: when two update_ip requests for the same interface with different
\* valid addresses have both gone through, the router holds exactly one row
\* for the interface: the address of the request whose add ran last.
C10_LastWriterWins ==
    LET a == req[1]  b == req[2] IN
    (/\ a.op = "update" /\ b.op = "update" /\ Done(a) /\ Done(b)
     /\ a.form.iface = b.form.iface /\ a.form.new_ip # b.form.new_ip
     /\ a.flashed = <<"applied">> /\ b.flashed = <<"applied">>
     /\ a.failed = "none" /\ b.failed = "none") =>
        AddrsOf(bindings, a.form.iface) = <<req[lastAdd].form.new_ip>>

\* C11: whatever call to the router raises (connect, read, remove, add), the
\* handler answers with a page or a redirect and has flashed a message; the
\* error does not leave the handler (the case of pool.disconnect() raising as
\* well, which leaves the pool open in these two routes, set aside).
C11_RouterErrorsHandled ==
    (Done(R) /\ R.failed \in {"connect", "read", "delete", "create"}
        /\ ~(R.op \in {"list", "update"} /\ R.open)) =>
        /\ R.out \in {"login_page", "redirect_login", "redirect_interfaces",
                      "interfaces_page"}
        /\ R.flashed # <<>>

\* C12: an interface_manager that renders the table shows, for every
\* interface, exactly the addresses of the rows the router holds for it at
\* that request, in the router's order, and changes no row.
C12_RowsFor(bs, i) == SelectSeq(bs, LAMBDA r : r.interface = i)
C12_Shown(bs) ==
    [i \in Ifaces |-> [k \in DOMAIN C12_RowsFor(bs, i) |-> C12_RowsFor(bs, i)[k].address]]
C13_Clears(r) == r.op \in {"show_login", "logout"}
C13_ClearIsIdempotent ==
    [][ (req'[Browser] # req[Browser] /\ C13_Clears(req'[Browser])) =>
          /\ DOMAIN session'[Browser] = {}
          /\ req'[Browser].attempts = 0 /\ req'[Browser].calls = 0
          /\ ~req'[Browser].open
          /\ bindings' = bindings /\ nextId' = nextId
          /\ C13_Clears(R) => session'[Browser] = session[Browser] ]_vars
\* ... a logout of a logged-in session, followed by a view of the login page.
C13_Witness ==
    /\ R.op = "logout" /\ HasCreds(R.before) /\ DOMAIN session[Browser] = {}

\* C14: no step of an update_ip for interface I changes the rows of another
\* interface, whether the request goes through, fails at a remove or at the
\* add, or is turned away by the validation or the session check.
C14_OtherInterfacesUntouched ==
    [][ \A i \in Ifaces :
          C12_RowsFor(bindings', i) # C12_RowsFor(bindings, i) =>
              /\ req'[Browser] # req[Browser]
              /\ req'[Browser].op = "update"
              /\ req'[Browser].form.iface = i ]_vars
\* ... ether1 replaced (its old row removed, a new one added) while the row of
\* ether2 is still the router's first one.
C14_Witness ==
    /\ R.op = "update" /\ Done(R) /\ R.form.iface = "ether1"
    /\ R.flashed = <<"applied">> /\ R.calls = 3
    /\ C12_RowsFor(bindings, "ether2") = <<Row(2, "ether2", OldAddr)>>

\* C15: within one update_ip the add is issued only once every remove of the
\* listed rows has returned without raising; a remove that raises ends the
\* request with no add and no further remove; so, requests running one at a
\* time, the new row is created on an interface that holds no row and is then
\* its only one.
C15_AddOnlyAfterAllRemoves ==
    [][ /\ Len(bindings') > Len(bindings) =>
              /\ R.op = "update" /\ R.pc = "add" /\ R.rows = <<>> /\ R.failed = "none"
              /\ C12_RowsFor(bindings, R.form.iface) = <<>>
              /\ Len(C12_RowsFor(bindings', R.form.iface)) = 1
        /\ (R.pc = "remove" /\ req'[Browser] # R /\ req'[Browser].failed = "delete") =>
              /\ Done(req'[Browser]) /\ req'[Browser].rows = <<>>
              /\ bindings' = bindings /\ nextId' = nextId
        /\ (R.pc = "remove" /\ req'[Browser] # R /\ req'[Browser].pc = "add") =>
              /\ Len(R.rows) = 1
              /\ C12_RowsFor(bindings', R.form.iface) = <<>> ]_vars
\* ... the second of two removes raised: one old row is left, no row was added.
C15_Witness ==
    /\ R.op = "update" /\ Done(R) /\ R.failed = "delete" /\ R.calls = 3
    /\ Len(C12_RowsFor(bindings, R.form.iface)) = 1
    /\ nextId = 3

\* C16: the session holds either all four of host, port, username, password
\* or none of them, and a stored port is an integer in 1..65535.
C16_SessionAllOrNothing ==
    \A t \in Threads :
        /\ DOMAIN session[t] \in {{}, {"host", "port", "username", "password"}}
        /\ DOMAIN session[t] # {} =>
              /\ session[t]["port"] \in Int
              /\ session[t]["port"] >= 1 /\ session[t]["port"] <= 65535
\* ... a logged-in session (port 1) after an address change.
C16_Witness ==
    /\ R.op = "update" /\ Done(R) /\ R.flashed # <<>>
    /\ HasCreds(session[Browser]) /\ session[Browser]["port"] = 1
====
